---- MODULE Spec2Model ----
(***************************************************************************)
(* Model of scripts/generate_postage.py: the run() pipeline that creates   *)
(* one carrier shipment per CSV row, buys postage, downloads labels,       *)
(* renders notes, merges label and note, writes the compiled results CSV,  *)
(* and sweeps refunds when a step fails.                                   *)
(*                                                                         *)
(* One action is one iteration of a loop of the script (or one statement   *)
(* of run()); the outcome of every call to a collaborator (carrier, HTTP,  *)
(* file system, pdfjam) is chosen with \E.                                 *)
(***************************************************************************)
EXTENDS Integers, Sequences, FiniteSets, TLC

\* Largest number of rows of the input CSV.
MaxRows == 3

\* Contents a CSV row can have (a row is one atomic record here).
RowVals == {"ra", "rb"}

\* Width of the index field in the artifact names: str(index).zfill(3).
ZFillWidth == 3

VARIABLES
    pc,             \* position of control in run() and its callees
    csv_exists,     \* os.path.exists(csv_path)
    rows,           \* the rows iterate_csv(csv_path) yields, in file order
    shipments,      \* the list built by generate_shipments
    index,          \* loop index of the stage that is running
    refund_index,   \* position of refund_postage's for loop
    sweep_caller,   \* who called refund_postage: "purchase_postage" | "run"
    labels,         \* files under labels/
    notes,          \* files under notes/
    results,        \* merged files under results/
    report_open,    \* results/compiled_results.csv was opened for writing
    report_header,  \* its header line was written
    report,         \* its data rows
    purchase_error, \* the exception purchase_postage caught, or NoError
    run_error,      \* the exception run() caught or raised, or NoError
    log             \* every collaborator call made so far, in order

vars == <<pc, csv_exists, rows, shipments, index, refund_index, sweep_caller,
          labels, notes, results, report_open, report_header, report,
          purchase_error, run_error, log>>

----------------------------------------------------------------------------
\* Pure helpers

\* tracking_code of a shipment that was not bought (Python None).
None == <<>>

NoError == [stage |-> "none", index |-> -1]

Error(stage, i) == [stage |-> stage, index |-> i]

RECURSIVE Digits(_)
\* str(n) for n >= 0, as the sequence of its decimal digits.
Digits(n) == IF n < 10 THEN <<n>> ELSE Digits(n \div 10) \o <<n % 10>>

RECURSIVE ZFill(_, _)
\* s.zfill(width): pad on the left with zeros up to width.
ZFill(s, width) == IF Len(s) >= width THEN s ELSE ZFill(<<0>> \o s, width)

\* "labels/ROW_{0}_{1}_LABEL.pdf".format(str(index).zfill(3), tracking_code)
LabelPath(i, tc) ==
    [dir |-> "labels", row |-> ZFill(Digits(i), ZFillWidth), code |-> tc,
     suffix |-> "LABEL.pdf"]

\* "notes/ROW_{0}_{1}_NOTE.pdf".format(str(index).zfill(3), tracking_code)
NotePath(i, tc) ==
    [dir |-> "notes", row |-> ZFill(Digits(i), ZFillWidth), code |-> tc,
     suffix |-> "NOTE.pdf"]

\* "results/ROW_{0}_{1}_LABEL_AND_NOTE.pdf".format(...)
LabelNotePath(i, tc) ==
    [dir |-> "results", row |-> ZFill(Digits(i), ZFillWidth), code |-> tc,
     suffix |-> "LABEL_AND_NOTE.pdf"]

\* open(path, "wb") followed by write: the file at path holds content.
WriteFile(store, path, content) ==
    {f \in store : f.path # path} \cup {[path |-> path, content |-> content]}

Exists(store, path) == \E f \in store : f.path = path

Content(store, path) == (CHOOSE f \in store : f.path = path).content

\* One entry of the log of collaborator calls.
Call(op, i, res) == [op |-> op, index |-> i, res |-> res]

\* The Python index (0-based) of the shipment a loop is at.
Shipment(i) == shipments[i + 1]

\* Mutation of Row: the file is read from its last row backwards.
Row_Reversed(i) == rows[Len(rows) - i]

\* The row enumerate(iterate_csv(csv_path)) yields at Python index i.
Row(i) == rows[i + 1]

\* What easypost.Shipment.create returns for a row: carrier id, destination
\* built from the row, no tracking code yet, nothing bought.
NewShipment(id, row) ==
    [id |-> id, to_address |-> [name |-> row], tracking_code |-> None,
     status |-> "unpurchased"]

\* Tracking codes the carrier has issued to the shipments of this run.
IssuedCodes(s) == {s[i].tracking_code : i \in 1..Len(s)} \ {None}

\* The carrier issues a tracking code no other shipment carries.
FreshCode(s) == <<Cardinality(IssuedCodes(s)) + 1>>

\* shipment.buy(rate=...) succeeded: the shipment is bought and tracked.
Bought(sh, tc) == [sh EXCEPT !.tracking_code = tc, !.status = "purchased"]

\* Results shipment.refund() can have: the carrier refunds bought postage or
\* fails to; it rejects a refund of postage never bought or already refunded.
RefundOutcomes(sh) ==
    IF sh.status = "purchased" THEN {"ok", "fail"} ELSE {"rejected"}

\* Mutation of Refunded: a refunded shipment counts as not bought again.
Refunded_Reset(sh, res) ==
    IF res = "ok" THEN [sh EXCEPT !.status = "unpurchased"] ELSE sh

\* The shipment after shipment.refund() returned res.
Refunded(sh, res) == IF res = "ok" THEN [sh EXCEPT !.status = "refunded"] ELSE sh

\* Mutation of RefundArgument: the sweep is given shipments[:-1].
RefundArgument_AllButLast(s) == SubSeq(s, 1, Len(s) - 1)

\* The argument of refund_postage at both of its call sites: shipments.
RefundArgument(s) == s

\* Mutation of AfterRefund: a failed refund ends the loop (break).
AfterRefund_Break(i, res, s) == IF res = "ok" THEN i + 1 ELSE Len(s)

\* refund_postage: where the loop stands after the refund at position i
\* returned res; the except clause continues with the next shipment.
AfterRefund(i, res, s) == i + 1

\* for ... in enumerate(seq): the loop at position i has no element left.
Exhausted(i, seq) == i >= Len(seq)

\* What generate_notes draws on the page from the row.
NoteText(row) == [message |-> row]

\* pdfjam can produce the merged file only from a readable label and a note.
Mergeable(i, tc) ==
    /\ Exists(labels, LabelPath(i, tc))
    /\ Content(labels, LabelPath(i, tc)) = "pdf"
    /\ Exists(notes, NotePath(i, tc))

\* Mutation of ReportRow: the path column names the note, not the merged file.
ReportRow_NotePath(i, row, sh) ==
    [fields |-> row, tracking_code |-> sh.tracking_code,
     label_and_note |-> NotePath(i, sh.tracking_code)]

\* row.update({"Tracking Code": ..., "Label And Note": ...})
ReportRow(i, row, sh) ==
    [fields |-> row, tracking_code |-> sh.tracking_code,
     label_and_note |-> LabelNotePath(i, sh.tracking_code)]

\* Entry into refund_postage(shipments), recorded in the log.
Sweep(caller) == Call("refund_postage", Len(RefundArgument(shipments)), caller)

----------------------------------------------------------------------------
Init ==
    /\ pc = "retrieve_address"
    /\ csv_exists \in BOOLEAN
    /\ rows \in UNION {[1..n -> RowVals] : n \in 0..MaxRows}
    /\ shipments = <<>>
    /\ index = 0
    /\ refund_index = 0
    /\ sweep_caller = "none"
    /\ labels = {}
    /\ notes = {}
    /\ results = {}
    /\ report_open = FALSE
    /\ report_header = FALSE
    /\ report = <<>>
    /\ purchase_error = NoError
    /\ run_error = NoError
    /\ log = <<>>

----------------------------------------------------------------------------
\* Mutation of RetrieveAddress: the carrier error is printed, not raised.
RetrieveAddress_Swallow ==
    /\ pc = "retrieve_address"
    /\ \E ok \in BOOLEAN :
        /\ log' = Append(log, Call("address_retrieve", 0, IF ok THEN "ok" ELSE "fail"))
        /\ pc' = "retrieve_parcel"
        /\ run_error' = IF ok THEN run_error ELSE Error("from_address_id", 0)
    /\ UNCHANGED <<csv_exists, rows, shipments, index, refund_index,
                   sweep_caller, labels, notes, results, report_open,
                   report_header, report, purchase_error>>

\* run(): from_address = easypost.Address.retrieve(from_address_id)
RetrieveAddress ==
    /\ pc = "retrieve_address"
    /\ \E ok \in BOOLEAN :
        /\ log' = Append(log, Call("address_retrieve", 0, IF ok THEN "ok" ELSE "fail"))
        /\ IF ok
           THEN pc' = "retrieve_parcel" /\ UNCHANGED run_error
           ELSE pc' = "raised" /\ run_error' = Error("from_address_id", 0)
    /\ UNCHANGED <<csv_exists, rows, shipments, index, refund_index,
                   sweep_caller, labels, notes, results, report_open,
                   report_header, report, purchase_error>>

\* run(): parcel = easypost.Parcel.retrieve(parcel_id)
RetrieveParcel ==
    /\ pc = "retrieve_parcel"
    /\ \E ok \in BOOLEAN :
        /\ log' = Append(log, Call("parcel_retrieve", 0, IF ok THEN "ok" ELSE "fail"))
        /\ IF ok
           THEN pc' = "check_csv" /\ UNCHANGED run_error
           ELSE pc' = "raised" /\ run_error' = Error("parcel_id", 0)
    /\ UNCHANGED <<csv_exists, rows, shipments, index, refund_index,
                   sweep_caller, labels, notes, results, report_open,
                   report_header, report, purchase_error>>

\* Mutation of CheckCsvPath: the existence check is missing.
CheckCsvPath_NoCheck ==
    /\ pc = "check_csv"
    /\ pc' = "generate_shipments"
    /\ UNCHANGED <<csv_exists, rows, shipments, index, refund_index,
                   sweep_caller, labels, notes, results, report_open,
                   report_header, report, purchase_error, run_error, log>>

\* run(): if not os.path.exists(csv_path): raise Exception(...)
CheckCsvPath ==
    /\ pc = "check_csv"
    /\ IF csv_exists
       THEN pc' = "generate_shipments" /\ UNCHANGED run_error
       ELSE pc' = "raised" /\ run_error' = Error("csv_path", 0)
    /\ UNCHANGED <<csv_exists, rows, shipments, index, refund_index,
                   sweep_caller, labels, notes, results, report_open,
                   report_header, report, purchase_error, log>>

\* generate_shipments: one iteration of the loop over the rows; an exception
\* of easypost.Shipment.create leaves run() uncaught.
CreateShipment ==
    /\ pc = "generate_shipments"
    /\ ~Exhausted(index, rows)
    /\ \E ok \in BOOLEAN :
        /\ log' = Append(log, Call("shipment_create", index, IF ok THEN "ok" ELSE "fail"))
        /\ IF ok
           THEN /\ shipments' = Append(shipments,
                                       NewShipment(Len(shipments) + 1, Row(index)))
                /\ index' = index + 1
                /\ UNCHANGED <<pc, run_error>>
           ELSE /\ pc' = "raised"
                /\ run_error' = Error("generate_shipments", index)
                /\ UNCHANGED <<shipments, index>>
    /\ UNCHANGED <<csv_exists, rows, refund_index, sweep_caller, labels, notes,
                   results, report_open, report_header, report, purchase_error>>

\* generate_shipments returns; run() calls purchase_postage(shipments).
GenerateShipmentsReturn ==
    /\ pc = "generate_shipments"
    /\ Exhausted(index, rows)
    /\ pc' = "buy"
    /\ index' = 0
    /\ UNCHANGED <<csv_exists, rows, shipments, refund_index, sweep_caller,
                   labels, notes, results, report_open, report_header, report,
                   purchase_error, run_error, log>>

\* purchase_postage: except Exception as error: ...; refund_postage(shipments)
PurchaseExcept(stage, call) ==
    /\ purchase_error' = Error(stage, index)
    /\ log' = log \o <<call, Sweep("purchase_postage")>>
    /\ pc' = "refund_postage"
    /\ refund_index' = 0
    /\ sweep_caller' = "purchase_postage"

\* Mutation of Buy: the try is inside the loop, a failed buy is printed and
\* the loop goes on with the next shipment.
Buy_ContinueOnFailure ==
    /\ pc = "buy"
    /\ ~Exhausted(index, shipments)
    /\ \E res \in {"ok", "fail", "no_rate"} :
        CASE res = "ok" ->
                /\ shipments' = [shipments EXCEPT ![index + 1] =
                                    Bought(Shipment(index), FreshCode(shipments))]
                /\ log' = Append(log, Call("buy", index, "ok"))
                /\ pc' = "download"
                /\ UNCHANGED <<purchase_error, index>>
          [] res = "fail" ->
                /\ purchase_error' = Error("buy", index)
                /\ log' = Append(log, Call("buy", index, "fail"))
                /\ index' = index + 1
                /\ UNCHANGED <<shipments, pc>>
          [] res = "no_rate" ->
                /\ purchase_error' = Error("lowest_rate", index)
                /\ log' = Append(log, Call("lowest_rate", index, "fail"))
                /\ index' = index + 1
                /\ UNCHANGED <<shipments, pc>>
    /\ UNCHANGED <<csv_exists, rows, labels, notes, results, report_open,
                   report_header, report, run_error, refund_index, sweep_caller>>

\* purchase_postage: shipment.buy(rate=shipment.lowest_rate(["USPS"], ["Priority"]))
Buy ==
    /\ pc = "buy"
    /\ ~Exhausted(index, shipments)
    /\ \E res \in {"ok", "fail", "no_rate"} :
        CASE res = "ok" ->
                /\ shipments' = [shipments EXCEPT ![index + 1] =
                                    Bought(Shipment(index), FreshCode(shipments))]
                /\ log' = Append(log, Call("buy", index, "ok"))
                /\ pc' = "download"
                /\ UNCHANGED <<purchase_error, refund_index, sweep_caller>>
          [] res = "fail" ->
                /\ PurchaseExcept("buy", Call("buy", index, "fail"))
                /\ UNCHANGED shipments
          [] res = "no_rate" ->
                /\ PurchaseExcept("lowest_rate", Call("lowest_rate", index, "fail"))
                /\ UNCHANGED shipments
    /\ UNCHANGED <<csv_exists, rows, index, labels, notes, results, report_open,
                   report_header, report, run_error>>

\* purchase_postage: urlopen(label_url, timeout=10), then the label is written
\* to labels/; a failed read leaves the file that open() created, empty.
Download ==
    /\ pc = "download"
    /\ LET path == LabelPath(index, Shipment(index).tracking_code) IN
       \E res \in {"ok", "urlopen_fail", "read_fail"} :
        CASE res = "ok" ->
                /\ labels' = WriteFile(labels, path, "pdf")
                /\ log' = Append(log, Call("download", index, "ok"))
                /\ index' = index + 1
                /\ pc' = "buy"
                /\ UNCHANGED <<purchase_error, refund_index, sweep_caller>>
          [] res = "urlopen_fail" ->
                /\ PurchaseExcept("download", Call("download", index, "fail"))
                /\ UNCHANGED <<labels, index>>
          [] res = "read_fail" ->
                /\ labels' = WriteFile(labels, path, "empty")
                /\ PurchaseExcept("download", Call("download", index, "fail"))
                /\ UNCHANGED index
    /\ UNCHANGED <<csv_exists, rows, shipments, notes, results, report_open,
                   report_header, report, run_error>>

\* purchase_postage returns after its loop bought every shipment.
PurchaseReturn ==
    /\ pc = "buy"
    /\ Exhausted(index, shipments)
    /\ pc' = "generate_notes"
    /\ index' = 0
    /\ UNCHANGED <<csv_exists, rows, shipments, refund_index, sweep_caller,
                   labels, notes, results, report_open, report_header, report,
                   purchase_error, run_error, log>>

\* refund_postage: one iteration; a failing shipment.refund() is printed and
\* the loop continues.
Refund ==
    /\ pc = "refund_postage"
    /\ ~Exhausted(refund_index, RefundArgument(shipments))
    /\ \E res \in RefundOutcomes(Shipment(refund_index)) :
        /\ shipments' = [shipments EXCEPT ![refund_index + 1] =
                            Refunded(Shipment(refund_index), res)]
        /\ log' = Append(log, Call("refund", refund_index, res))
        /\ refund_index' = AfterRefund(refund_index, res, RefundArgument(shipments))
    /\ UNCHANGED <<pc, csv_exists, rows, index, sweep_caller, labels, notes,
                   results, report_open, report_header, report, purchase_error,
                   run_error>>

\* Mutation of RefundReturn: after its sweep purchase_postage takes up its
\* loop again at the shipment that failed.
RefundReturn_Retry ==
    /\ pc = "refund_postage"
    /\ Exhausted(refund_index, RefundArgument(shipments))
    /\ pc' = IF sweep_caller = "purchase_postage" THEN "buy" ELSE "done"
    /\ UNCHANGED <<csv_exists, rows, shipments, index, refund_index,
                   sweep_caller, labels, notes, results, report_open,
                   report_header, report, purchase_error, run_error, log>>

\* refund_postage returns to its caller: purchase_postage, which returns to
\* run() and run() goes on with generate_notes; or run()'s except clause,
\* after which run() returns.
RefundReturn ==
    /\ pc = "refund_postage"
    /\ Exhausted(refund_index, RefundArgument(shipments))
    /\ pc' = IF sweep_caller = "purchase_postage" THEN "generate_notes" ELSE "done"
    /\ index' = 0
    /\ UNCHANGED <<csv_exists, rows, shipments, refund_index, sweep_caller,
                   labels, notes, results, report_open, report_header, report,
                   purchase_error, run_error, log>>

\* Mutation of RunExcept: the failure is printed and run() returns, no sweep.
RunExcept_NoRefund(stage, call) ==
    /\ run_error' = Error(stage, index)
    /\ log' = Append(log, call)
    /\ pc' = "done"
    /\ UNCHANGED <<refund_index, sweep_caller>>

\* run(): except Exception as error: print(...); refund_postage(shipments)
RunExcept(stage, call) ==
    /\ run_error' = Error(stage, index)
    /\ log' = log \o <<call, Sweep("run")>>
    /\ pc' = "refund_postage"
    /\ refund_index' = 0
    /\ sweep_caller' = "run"

\* generate_notes: one iteration over enumerate(iterate_csv(csv_path)).
GenerateNote ==
    /\ pc = "generate_notes"
    /\ ~Exhausted(index, rows)
    /\ \E ok \in BOOLEAN :
        IF ok
        THEN /\ notes' = WriteFile(notes,
                            NotePath(index, Shipment(index).tracking_code),
                            NoteText(Row(index)))
             /\ log' = Append(log, Call("note", index, "ok"))
             /\ index' = index + 1
             /\ UNCHANGED <<pc, run_error, refund_index, sweep_caller>>
        ELSE /\ RunExcept("generate_notes", Call("note", index, "fail"))
             /\ UNCHANGED <<notes, index>>
    /\ UNCHANGED <<csv_exists, rows, shipments, labels, results, report_open,
                   report_header, report, purchase_error>>

\* generate_notes returns; run() calls merge_labels_and_notes(shipments).
GenerateNotesReturn ==
    /\ pc = "generate_notes"
    /\ Exhausted(index, rows)
    /\ pc' = "merge_labels_and_notes"
    /\ index' = 0
    /\ UNCHANGED <<csv_exists, rows, shipments, refund_index, sweep_caller,
                   labels, notes, results, report_open, report_header, report,
                   purchase_error, run_error, log>>

\* merge_labels_and_notes: one iteration, subprocess.check_output(pdfjam ...).
Merge ==
    /\ pc = "merge_labels_and_notes"
    /\ ~Exhausted(index, shipments)
    /\ LET tc == Shipment(index).tracking_code IN
       \E ok \in {TRUE, FALSE} :
        IF ok /\ Mergeable(index, tc)
        THEN /\ results' = WriteFile(results, LabelNotePath(index, tc),
                              [label |-> Content(labels, LabelPath(index, tc)),
                               note |-> Content(notes, NotePath(index, tc))])
             /\ log' = Append(log, Call("merge", index, "ok"))
             /\ index' = index + 1
             /\ UNCHANGED <<pc, run_error, refund_index, sweep_caller>>
        ELSE /\ RunExcept("merge_labels_and_notes", Call("merge", index, "fail"))
             /\ UNCHANGED <<results, index>>
    /\ UNCHANGED <<csv_exists, rows, shipments, labels, notes, report_open,
                   report_header, report, purchase_error>>

\* merge_labels_and_notes returns; run() calls write_results(shipments, csv_path).
MergeReturn ==
    /\ pc = "merge_labels_and_notes"
    /\ Exhausted(index, shipments)
    /\ pc' = "open_results"
    /\ index' = 0
    /\ UNCHANGED <<csv_exists, rows, shipments, refund_index, sweep_caller,
                   labels, notes, results, report_open, report_header, report,
                   purchase_error, run_error, log>>

\* write_results: with open(results_path, 'w') as outfile
OpenResults ==
    /\ pc = "open_results"
    /\ \E ok \in BOOLEAN :
        IF ok
        THEN /\ report_open' = TRUE
             /\ report_header' = FALSE
             /\ report' = <<>>
             /\ log' = Append(log, Call("open_results", 0, "ok"))
             /\ pc' = "write_results"
             /\ UNCHANGED <<run_error, refund_index, sweep_caller>>
        ELSE /\ RunExcept("write_results", Call("open_results", 0, "fail"))
             /\ UNCHANGED <<report_open, report_header, report>>
    /\ UNCHANGED <<csv_exists, rows, shipments, index, labels, notes, results,
                   purchase_error>>

\* write_results: one iteration; the header is written with the first row.
WriteRow ==
    /\ pc = "write_results"
    /\ ~Exhausted(index, rows)
    /\ \E ok \in BOOLEAN :
        IF ok
        THEN /\ report_header' = TRUE
             /\ report' = Append(report, ReportRow(index, Row(index), Shipment(index)))
             /\ log' = Append(log, Call("row", index, "ok"))
             /\ index' = index + 1
             /\ UNCHANGED <<pc, run_error, refund_index, sweep_caller>>
        ELSE /\ RunExcept("write_results", Call("row", index, "fail"))
             /\ UNCHANGED <<report_header, report, index>>
    /\ UNCHANGED <<csv_exists, rows, shipments, labels, notes, results,
                   report_open, purchase_error>>

\* Mutation of WriteResultsReturn: the sweep sits in a finally clause and
\* runs after a complete batch too.
WriteResultsReturn_Finally ==
    /\ pc = "write_results"
    /\ Exhausted(index, rows)
    /\ log' = Append(log, Sweep("run"))
    /\ pc' = "refund_postage"
    /\ refund_index' = 0
    /\ sweep_caller' = "run"
    /\ UNCHANGED <<csv_exists, rows, shipments, index, labels, notes, results,
                   report_open, report_header, report, purchase_error,
                   run_error>>

\* write_results returns and run() returns.
WriteResultsReturn ==
    /\ pc = "write_results"
    /\ Exhausted(index, rows)
    /\ pc' = "done"
    /\ UNCHANGED <<csv_exists, rows, shipments, index, refund_index,
                   sweep_caller, labels, notes, results, report_open,
                   report_header, report, purchase_error, run_error, log>>

Next ==
    \/ RetrieveAddress
    \/ RetrieveParcel
    \/ CheckCsvPath
    \/ CreateShipment
    \/ GenerateShipmentsReturn
    \/ Buy
    \/ Download
    \/ PurchaseReturn
    \/ Refund
    \/ RefundReturn
    \/ GenerateNote
    \/ GenerateNotesReturn
    \/ Merge
    \/ MergeReturn
    \/ OpenResults
    \/ WriteRow
    \/ WriteResultsReturn

Spec == Init /\ [][Next]_vars

\* run() is one sequential thread: whenever a step can be taken, one is taken.
FairSpec == Init /\ [][Next]_vars /\ WF_vars(Next)

----------------------------------------------------------------------------
\* Vocabulary of the properties

\* Python indices of the shipments.
Indices == 0 .. Len(shipments) - 1

\* purchase_postage caught an exception (buy, rate selection or download).
PurchaseFailed == purchase_error # NoError

\* Positions of the log that hold a call of op.
Calls(op) == {j \in 1..Len(log) : log[j].op = op}

\* Positions of the log that hold a call of op on the shipment at index i.
CallsOn(op, i) == {j \in Calls(op) : log[j].index = i}

\* A refund was requested from the carrier for the shipment at index i.
RefundRequested(i) == CallsOn("refund", i) # {}

\* The carrier accepted the buy of the shipment at index i.
PurchasedAt(i) == \E j \in CallsOn("buy", i) : log[j].res = "ok"

\* No refund request on bought postage failed.
RefundsSucceeded == \A j \in Calls("refund") : log[j].res # "fail"

\* Indices of the shipments in the refunded state.
RefundedSet == {i \in Indices : Shipment(i).status = "refunded"}

\* The index field of the artifact names for index i.
RowField(i) == ZFill(Digits(i), ZFillWidth)

\* Number of refund requests that directly follow the sweep entered at log
\* position m.
Attempts(m) ==
    LET stops == {j \in (m + 1)..(Len(log) + 1) :
                     j = Len(log) + 1 \/ log[j].op # "refund"}
    IN  (CHOOSE j \in stops : \A k \in stops : j <= k) - m - 1

\* The sweep entered at log position m has left its loop.
SweepOver(m) == m + Attempts(m) < Len(log) \/ pc # "refund_postage"

----------------------------------------------------------------------------
\* C1 (as stated): when purchase failed at index k and every refund of bought
\* postage succeeded, run() ends with exactly the shipments 0..k-1 refunded.
C1_Original ==
    (pc = "done" /\ PurchaseFailed /\ RefundsSucceeded)
        => RefundedSet = 0 .. (purchase_error.index - 1)

\* C1 (amended): when purchase failed at index k and every refund of bought
\* postage succeeded, run() ends with exactly the bought shipments refunded:
\* 0..k-1 when the buy (or its rate selection) failed, 0..k when the label
\* download of shipment k failed after its buy.
C1_RefundedAfterPurchaseFailure ==
    (pc = "done" /\ PurchaseFailed /\ RefundsSucceeded)
        => RefundedSet =
             IF purchase_error.stage = "download"
             THEN 0 .. purchase_error.index
             ELSE 0 .. (purchase_error.index - 1)

C1_Witness ==
    /\ pc = "done"
    /\ RefundsSucceeded
    /\ purchase_error.stage = "download"
    /\ purchase_error.index >= 1
    /\ Len(shipments) > purchase_error.index + 1
    /\ RefundedSet = 0 .. purchase_error.index

\* C2: once purchase failed, no note is rendered, no merge is run and the
\* results file is not written: no note, merged file or report row exists.
C2_NoArtifactsAfterPurchaseFailure ==
    PurchaseFailed =>
        /\ notes = {} /\ results = {} /\ report = <<>> /\ ~report_open
        /\ Calls("note") = {} /\ Calls("merge") = {}
        /\ Calls("open_results") = {} /\ Calls("row") = {}

\* C3: every refund request is for a shipment whose buy was attempted before,
\* and after a purchase failure at index k no refund request is for an
\* index > k.
C3_RefundOnlyAttemptedPurchases ==
    \A j \in Calls("refund") :
        /\ \E b \in CallsOn("buy", log[j].index) : b < j
        /\ PurchaseFailed => log[j].index <= purchase_error.index

\* C4: when every purchase succeeded and a note or a merge failed, run() ends
\* with a refund requested for each of the N shipments, and write_results was
\* never entered.
C4_PostPurchaseFailureRefundsAll ==
    (/\ ~PurchaseFailed
     /\ run_error.stage \in {"generate_notes", "merge_labels_and_notes"})
        => /\ ~report_open /\ report = <<>>
           /\ Calls("open_results") = {} /\ Calls("row") = {}
           /\ Len(shipments) = Len(rows)
           /\ \A i \in Indices : PurchasedAt(i)
           /\ pc = "done" => \A i \in Indices : RefundRequested(i)

C4_Witness ==
    /\ pc = "done"
    /\ ~PurchaseFailed
    /\ run_error.stage = "merge_labels_and_notes"
    /\ Len(shipments) >= 2
    /\ \A i \in Indices : RefundRequested(i)

\* C5: every sweep of refund_postage requests a refund once for each shipment
\* it was given, in index order, whichever of the requests fail, and then
\* returns to its caller; no refund is requested outside a sweep.
C5_RefundSweepTotal ==
    /\ \A m \in Calls("refund_postage") :
          /\ Attempts(m) <= log[m].index
          /\ \A j \in 1..Attempts(m) : log[m + j].index = j - 1
          /\ SweepOver(m) => Attempts(m) = log[m].index
    /\ \A j \in Calls("refund") :
          j > 1 /\ log[j - 1].op \in {"refund", "refund_postage"}
    /\ pc = "raised" => Calls("refund_postage") = {}
    /\ pc = "refund_postage" <=>
          (\E m \in Calls("refund_postage") : ~SweepOver(m))

C5_Witness ==
    /\ pc # "refund_postage"
    /\ \E m \in Calls("refund_postage") :
          /\ log[m].index >= 3
          /\ Attempts(m) = log[m].index
          /\ log[m + 1].res = "fail"
          /\ log[m + 2].res = "ok"
          /\ log[m + 3].res = "fail"

\* C6: when run() has ended after a failure, a refund was requested, after its
\* buy, for every shipment that was bought.
C6_NoPurchaseLeftWithoutRefundRequest ==
    (pc \in {"done", "raised"} /\ (PurchaseFailed \/ run_error # NoError))
        => \A i \in Indices :
              \A b \in CallsOn("buy", i) :
                  log[b].res = "ok" => \E r \in CallsOn("refund", i) : r > b

C6_Witness ==
    /\ pc = "done"
    /\ run_error.stage = "write_results"
    /\ run_error.index >= 1
    /\ Len(shipments) >= 2
    /\ \A i \in Indices : PurchasedAt(i) /\ RefundRequested(i)

\* C7: a run of N rows in which no step failed ends with N report rows, the
\* i-th naming the merged file of index i, which exists, and with no refund
\* requested.
C7_CompleteBatch ==
    (pc = "done" /\ ~PurchaseFailed /\ run_error = NoError)
        => /\ Len(report) = Len(rows)
           /\ Len(shipments) = Len(rows)
           /\ \A i \in Indices :
                 /\ report[i + 1].label_and_note =
                        LabelNotePath(i, Shipment(i).tracking_code)
                 /\ Exists(results, report[i + 1].label_and_note)
           /\ Cardinality(results) = Len(rows)
           /\ Calls("refund") = {} /\ Calls("refund_postage") = {}

C7_Witness ==
    /\ pc = "done"
    /\ ~PurchaseFailed
    /\ run_error = NoError
    /\ Len(report) = MaxRows
    /\ Calls("refund") = {}

\* A file of the store named for index i exists, and every file named for
\* index i carries the tracking code of the i-th shipment.
Correlated(store) ==
    /\ \A f \in store :
          \E i \in Indices :
              /\ f.path.row = RowField(i)
              /\ f.path.code = Shipment(i).tracking_code
    /\ {f.path.row : f \in store} =
          {RowField(i) : i \in 0 .. (Cardinality(store) - 1)}

\* C8: the i-th shipment was created from the i-th input row, and every
\* label, note, merged file and report row of index i carries the tracking
\* code of the i-th shipment (notes and report rows also the i-th row); the
\* indices written in a store or in the report are 0, 1, 2, ... with no gap.
C8_PositionalCorrelation ==
    /\ Len(shipments) <= Len(rows)
    /\ \A i \in Indices : Shipment(i).to_address.name = rows[i + 1]
    /\ Correlated(labels) /\ Correlated(notes) /\ Correlated(results)
    /\ \A f \in notes :
          \A i \in Indices :
              f.path.row = RowField(i) => f.content = NoteText(rows[i + 1])
    /\ Len(report) <= Len(shipments)
    /\ \A i \in 0 .. (Len(report) - 1) :
          /\ report[i + 1].tracking_code = Shipment(i).tracking_code
          /\ report[i + 1].fields = rows[i + 1]
          /\ report[i + 1].label_and_note.row = RowField(i)
          /\ report[i + 1].label_and_note.code = Shipment(i).tracking_code

C8_Witness ==
    /\ pc = "done"
    /\ Len(report) >= 2
    /\ rows[1] # rows[2]
    /\ report[1].tracking_code # report[2].tracking_code
    /\ Cardinality(labels) = Len(rows)
    /\ Cardinality(notes) = Len(rows)
    /\ Cardinality(results) = Len(rows)

\* The shipment at index i was bought (it is purchased or, since, refunded).
HasBeenPurchased(i) ==
    i \in Indices /\ Shipment(i).status \in {"purchased", "refunded"}

\* Every file of the store is named for the index of a bought shipment.
OnlyPurchased(store) ==
    \A f \in store :
        \E i \in Indices : f.path.row = RowField(i) /\ HasBeenPurchased(i)

\* C9: a label, note, merged file or report row of index i exists only if
\* shipment i has been bought.
C9_ArtifactsOnlyForPurchased ==
    /\ OnlyPurchased(labels) /\ OnlyPurchased(notes) /\ OnlyPurchased(results)
    /\ \A i \in 0 .. (Len(report) - 1) : HasBeenPurchased(i)

\* C10 (as stated): when the input path does not exist, no carrier request is
\* ever issued: no address retrieve, no parcel retrieve, no shipment create.
C10_Original ==
    ~csv_exists =>
        /\ Calls("address_retrieve") = {}
        /\ Calls("parcel_retrieve") = {}
        /\ Calls("shipment_create") = {}

\* C10 (amended): when the input path does not exist, run() raises at the
\* existence check, which follows the address and parcel retrieves and
\* precedes every shipment create: the only carrier requests issued are the
\* address retrieve and the parcel retrieve.
C10_CheckBeforeShipmentCreate ==
    ~csv_exists =>
        /\ pc \in {"retrieve_address", "retrieve_parcel", "check_csv", "raised"}
        /\ \A j \in 1..Len(log) :
              log[j].op \in {"address_retrieve", "parcel_retrieve"}
        /\ shipments = <<>>
        /\ run_error.stage = "csv_path" =>
              Calls("address_retrieve") # {} /\ Calls("parcel_retrieve") # {}

C10_Witness ==
    /\ ~csv_exists
    /\ pc = "raised"
    /\ run_error.stage = "csv_path"
    /\ Len(log) = 2

\* The origin address or the parcel was not resolved, or the input file does
\* not exist and run() found it so.
ResolutionFailed ==
    \/ \E j \in Calls("address_retrieve") \cup Calls("parcel_retrieve") :
          log[j].res = "fail"
    \/ run_error.stage = "csv_path"

\* C11: when the origin address or the parcel cannot be resolved, or the input
\* file does not exist, run() raises and no shipment was created and no
\* postage bought: the numbers of shipment creates and of buys are zero.
C11_AbortBeforeAnyShipment ==
    /\ ResolutionFailed =>
          /\ pc = "raised"
          /\ run_error.stage \in {"from_address_id", "parcel_id", "csv_path"}
          /\ Calls("shipment_create") = {} /\ Calls("buy") = {}
          /\ shipments = <<>>
    /\ ~csv_exists => Calls("shipment_create") = {} /\ Calls("buy") = {}

C11_Witness ==
    /\ pc = "raised"
    /\ run_error.stage = "parcel_id"
    /\ Len(rows) >= 1
    /\ csv_exists
    /\ Calls("shipment_create") = {}

\* Some step of run() has failed.
SomeFailure == PurchaseFailed \/ run_error # NoError

\* No shipment was bought before the first failure of the run.
NothingPurchasedAtFailure ==
    \/ pc = "raised"
    \/ PurchaseFailed /\ purchase_error.index = 0
                      /\ purchase_error.stage \in {"buy", "lowest_rate"}

\* C12: when a step fails while no shipment has been bought (reference
\* resolution, missing input, a shipment create, or the buy of shipment 0),
\* refund_postage is not invoked and no refund is requested.
C12_NoRefundBeforeAnyPurchase ==
    NothingPurchasedAtFailure =>
        Calls("refund_postage") = {} /\ Calls("refund") = {}

\* run() has returned or raised.
Terminated == pc \in {"done", "raised"}

\* C13: when run() has ended, the report holds rows for all N shipments of a
\* batch that completed with no refund, or no row; and at no time does a
\* report row refer to a shipment for which a refund has been requested.
C13_ReportAllOrNothing ==
    /\ Terminated =>
          \/ report = <<>>
          \/ Len(report) = Len(rows) /\ ~SomeFailure /\ Calls("refund") = {}
    /\ \A i \in 0 .. (Len(report) - 1) : ~RefundRequested(i)

\* Positions of the log that hold a step of the purchase loop.
PurchaseCalls == Calls("buy") \cup Calls("lowest_rate") \cup Calls("download")

\* C14: shipments are bought in strictly increasing index order, 0, 1, 2, ...;
\* once a buy, its rate selection or a label download has failed at index k,
\* the purchase loop is left for good: no buy and no download is attempted
\* afterwards, and none at all for an index > k.
C14_PurchaseLoopAborts ==
    /\ \A j \in Calls("buy") :
          log[j].index = Cardinality({b \in Calls("buy") : b < j})
    /\ \A j \in Calls("download") :
          j > 1 /\ log[j - 1] = Call("buy", log[j].index, "ok")
    /\ \A f \in PurchaseCalls :
          log[f].res = "fail" =>
              /\ PurchaseFailed /\ purchase_error.index = log[f].index
              /\ \A j \in PurchaseCalls : j <= f
    /\ PurchaseFailed =>
          /\ pc \notin {"buy", "download"}
          /\ \A j \in PurchaseCalls : log[j].index <= purchase_error.index

C14_Witness ==
    /\ pc = "done"
    /\ PurchaseFailed
    /\ purchase_error.index = 1
    /\ Len(shipments) = MaxRows
    /\ Calls("note") # {}
    /\ Shipment(MaxRows - 1).status = "unpurchased"

\* The stage of run() a logged call belongs to; refunds belong to no stage.
StageOf(op) ==
    CASE op \in {"address_retrieve", "parcel_retrieve"} -> 0
      [] op = "shipment_create" -> 1
      [] op \in {"lowest_rate", "buy", "download"} -> 2
      [] op = "note" -> 3
      [] op = "merge" -> 4
      [] op \in {"open_results", "row"} -> 5

\* Positions of the log that hold a call of a stage.
StageCalls == {j \in 1..Len(log) : log[j].op \notin {"refund", "refund_postage"}}

\* C15: the stages run strictly forward (every shipment create precedes every
\* buy, every buy every note, every note every merge, every merge every report
\* row), and refund_postage is entered only right after a step has failed,
\* never in a run with no failure.
C15_StagesForward ==
    /\ \A j, k \in StageCalls :
          j < k => StageOf(log[j].op) <= StageOf(log[k].op)
    /\ \A m \in Calls("refund_postage") :
          /\ m > 1
          /\ log[m - 1].res = "fail"
          /\ (m - 1) \in StageCalls
    /\ Calls("refund_postage") # {} => SomeFailure
    /\ ~SomeFailure => Calls("refund") = {} /\ pc # "refund_postage"

C15_Witness ==
    /\ pc = "done"
    /\ run_error.stage = "write_results"
    /\ Len(report) >= 1
    /\ Cardinality(Calls("merge")) = MaxRows
    /\ Cardinality(Calls("refund_postage")) = 1

\* The moves of a shipment's purchase state that the life cycle allows.
LifeCycleMoves ==
    {<<"unpurchased", "unpurchased">>, <<"unpurchased", "purchased">>,
     <<"purchased", "purchased">>, <<"purchased", "refunded">>,
     <<"refunded", "refunded">>}

\* Every shipment is bought at most once and never after a refund request, and
\* its state tells whether it was bought and whether it was refunded.
LifeCycleInv ==
    \A i \in Indices :
        /\ Cardinality(CallsOn("buy", i)) <= 1
        /\ \A b \in CallsOn("buy", i) : \A r \in CallsOn("refund", i) : b < r
        /\ Shipment(i).status = "unpurchased" <=> ~PurchasedAt(i)
        /\ Shipment(i).status = "refunded" <=>
              (\E r \in CallsOn("refund", i) : log[r].res = "ok")
        /\ Cardinality({r \in CallsOn("refund", i) : log[r].res = "ok"}) <= 1

\* A step keeps every shipment and moves its state along the life cycle.
LifeCycleStep ==
    /\ Len(shipments') >= Len(shipments)
    /\ \A i \in 1..Len(shipments) :
          <<shipments[i].status, shipments'[i].status>> \in LifeCycleMoves

\* C16: a shipment goes unpurchased -> purchased -> refunded only: it is bought
\* at most once, never bought after a refund was requested for it, and never
\* goes back from refunded to purchased or unpurchased.
C16_LifeCycle == [](LifeCycleInv) /\ [][LifeCycleStep]_vars

C16_Witness ==
    /\ pc = "done"
    /\ Len(shipments) >= 2
    /\ \A i \in Indices :
          /\ Shipment(i).status = "refunded"
          /\ \E r \in CallsOn("refund", i) : log[r].res = "rejected"

\* C17: in one run refund_postage is entered at most once and a refund is
\* requested at most once for any shipment.
C17_RefundAtMostOnce ==
    /\ Cardinality(Calls("refund_postage")) <= 1
    /\ \A i \in Indices : Cardinality(CallsOn("refund", i)) <= 1

\* After a sweep the stage that failed is neither resumed nor retried: every
\* later call belongs to a later stage, none follows the sweep of run()'s
\* except clause, and no call is made twice for the same index.
NoResume ==
    /\ \A m \in Calls("refund_postage") :
          \A j \in StageCalls :
              j > m => /\ StageOf(log[j].op) > StageOf(log[m - 1].op)
                       /\ log[m].res # "run"
    /\ \A j, k \in StageCalls :
          (log[j].op = log[k].op /\ log[j].index = log[k].index) => j = k

\* C18: whatever the rows and whichever calls fail, run() eventually returns
\* or raises; and after a refund sweep no stage is resumed or retried.
C18_Terminates == <>Terminated /\ [](NoResume)

C18_Witness ==
    /\ pc = "done"
    /\ Len(shipments) = MaxRows
    /\ Cardinality(Calls("refund_postage")) = 2
    /\ \E j \in Calls("refund") : log[j].res = "fail"
    /\ \E j \in Calls("note") : log[j].res = "fail"

====
